---- MODULE Spec2Model ----
(***************************************************************************)
(* A model of the subtitle import pipeline: the pre-order traversal of     *)
(* XmlExporter.py driving DbHandler.write_node, and the guarded INSERT     *)
(* statements of DbHandler.py, over tables held as sets of rows.           *)
(*                                                                         *)
(* Python strings that the code takes apart (the id and value attributes,  *)
(* the timestamps) are sequences of one-character strings; '' is << >>.    *)
(* Tag names and text contents, which the code only compares and stores,   *)
(* are TLA+ strings.  A parent path is the sequence of its "." separators  *)
(* and tag names, in the order the f-string concatenates them.             *)
(***************************************************************************)
EXTENDS Integers, Sequences, FiniteSets, TLC

VARIABLES
    handler,    \* the fields of the DbHandler object
    tables,     \* the rows of words_<lang>, meta and time_<lang>
    hist,       \* history of the opens, closes and words visited
    pc,         \* where main is: "main", "root", "walk", "crashed", "insert"
    stack,      \* the active calls of pre_order_traversal, outermost first
    fileNo,     \* the number of files main has taken from next_file
    count,      \* the calls of write_node so far
    input,      \* the files of src_dir, or the elements they may hold
    ev,         \* what the last call of write_node or insert_table_* did
    args,       \* the parsed command line: db_product, lang, db_user, ...
    conn,       \* self.conn: None, or the database it is connected to
    calls,      \* the connection attempts and statements issued, in order
    catalog,    \* the server: reachable or not, its databases and tables
    workers,    \* the handlers of parallel workers and what each has left
    parsed      \* a time string and what parse_time made of it

\* What the traversal and the insert statements leave alone.
sysvars == <<args, conn, calls, catalog, workers, parsed>>

vars ==
    <<handler, tables, hist, pc, stack, fileNo, count, input, ev, args, conn,
      calls, catalog, workers, parsed>>

(***************************************************************************)
(* Bounds of the model.                                                    *)
(***************************************************************************)
\* Free input: the nodes visited in one run, and the depth of a tree.
MaxVisits == 4

MaxDepth == 3

\* Given input: the imports of one file.
MaxImports == 2

\* Given input: the children of a re-imported document, the words of a
\* sentence.
MaxKids == 4

MaxWords == 3

(***************************************************************************)
(* Python values.                                                          *)
(***************************************************************************)
\* None, where the code passes it on as a value (node.text of an element
\* without text).  No text of the model is this string.
None == "<None>"

DigitChars == {"0", "1", "2", "3", "4", "5", "6", "7", "8", "9"}

DigitVal(c) ==
    CASE c = "0" -> 0 [] c = "1" -> 1 [] c = "2" -> 2 [] c = "3" -> 3
      [] c = "4" -> 4 [] c = "5" -> 5 [] c = "6" -> 6 [] c = "7" -> 7
      [] c = "8" -> 8 [] c = "9" -> 9

DigitChar(d) ==
    CASE d = 0 -> "0" [] d = 1 -> "1" [] d = 2 -> "2" [] d = 3 -> "3"
      [] d = 4 -> "4" [] d = 5 -> "5" [] d = 6 -> "6" [] d = 7 -> "7"
      [] d = 8 -> "8" [] d = 9 -> "9"

RECURSIVE DigitsVal(_)
DigitsVal(s) ==
    IF s = << >> THEN 0
    ELSE DigitsVal(SubSeq(s, 1, Len(s) - 1)) * 10 + DigitVal(s[Len(s)])

AllDigits(s) == s # << >> /\ \A i \in 1..Len(s) : s[i] \in DigitChars

\* int(s) of a str: an optional sign and at least one decimal digit, else
\* ValueError (ok = FALSE).
py_int(s) ==
    LET signed == s # << >> /\ s[1] \in {"-", "+"}
        body == IF signed THEN Tail(s) ELSE s
    IN  IF AllDigits(body)
        THEN [ok |-> TRUE,
              val |-> IF signed /\ s[1] = "-" THEN 0 - DigitsVal(body)
                      ELSE DigitsVal(body)]
        ELSE [ok |-> FALSE, val |-> 0]

RECURSIVE NatStr(_)
NatStr(n) ==
    IF n < 10 THEN <<DigitChar(n)>>
    ELSE NatStr(n \div 10) \o <<DigitChar(n % 10)>>

\* str(n) of an int, as an f-string formats it.
py_str(n) == IF n < 0 THEN <<"-">> \o NatStr(0 - n) ELSE NatStr(n)

\* s.split(sep): the pieces between the separators, at least one.
RECURSIVE py_split(_, _)
py_split(s, sep) ==
    IF \A i \in 1..Len(s) : s[i] # sep THEN <<s>>
    ELSE LET i == CHOOSE k \in 1..Len(s) :
                      s[k] = sep /\ \A j \in 1..(k - 1) : s[j] # sep
         IN  <<SubSeq(s, 1, i - 1)>> \o py_split(SubSeq(s, i + 1, Len(s)), sep)

\* s.replace(old, new) for one-character old and new.
py_replace(s, old, new) ==
    [i \in 1..Len(s) |-> IF s[i] = old THEN new ELSE s[i]]

\* str(Decimal(s)) for s of digits with at most one '.', at least one digit:
\* the integer part loses its leading zeros, the fraction keeps its digits.
\* Anything else raises decimal.InvalidOperation (ok = FALSE).
py_decimal_str(s) ==
    LET parts == py_split(s, ".")
        ip == parts[1]
        fr == IF Len(parts) = 2 THEN parts[2] ELSE << >>
        wellformed ==
            /\ Len(parts) <= 2
            /\ ip \o fr # << >>
            /\ \A i \in 1..Len(ip) : ip[i] \in DigitChars
            /\ \A i \in 1..Len(fr) : fr[i] \in DigitChars
    IN  IF wellformed
        THEN [ok |-> TRUE,
              val |-> NatStr(DigitsVal(ip))
                      \o (IF fr = << >> THEN << >> ELSE <<".">> \o fr)]
        ELSE [ok |-> FALSE, val |-> << >>]

\* format_time with the days written whatever their number.
format_time_with_days(hours, minutes, seconds) ==
    py_str(hours \div 24) \o <<" ">> \o py_str(hours % 24) \o <<":">>
        \o py_str(minutes) \o <<":">> \o seconds

\* format_time with the hours and minutes padded to two digits.
Pad2(n) == IF n < 10 THEN <<"0">> \o py_str(n) ELSE py_str(n)

format_time_padded(hours, minutes, seconds) ==
    (IF hours \div 24 > 0 THEN py_str(hours \div 24) \o <<" ">> ELSE << >>)
        \o py_str(hours % 24) \o <<":">> \o Pad2(minutes)
        \o <<":">> \o seconds

\* DbHandler.parse_time, lines 54-58: the text returned for the parsed
\* hours, minutes and seconds.
format_time(hours, minutes, seconds) ==
    (IF hours \div 24 > 0 THEN py_str(hours \div 24) \o <<" ">> ELSE << >>)
        \o py_str(hours % 24) \o <<":">> \o py_str(minutes)
        \o <<":">> \o seconds

TimeError(err) == [ok |-> FALSE, val |-> << >>, err |-> err]

\* DbHandler.parse_time, lines 49-53, on the pieces of the split.  err names
\* the exception of the first step that raises: int() of the hours, toks[1],
\* int() of the minutes, toks[2], Decimal() of the seconds.
parse_fields(toks) ==
    IF ~py_int(toks[1]).ok THEN TimeError("ValueError")
    ELSE IF Len(toks) < 2 THEN TimeError("IndexError")
    ELSE IF ~py_int(toks[2]).ok THEN TimeError("ValueError")
    ELSE IF Len(toks) < 3 THEN TimeError("IndexError")
    ELSE IF ~py_decimal_str(py_replace(toks[3], ",", ".")).ok
    THEN TimeError("InvalidOperation")
    ELSE [ok |-> TRUE, err |-> "none",
          val |-> format_time(py_int(toks[1]).val, py_int(toks[2]).val,
                      py_decimal_str(py_replace(toks[3], ",", ".")).val)]

\* DbHandler.parse_time.
parse_time(time_str) == parse_fields(py_split(time_str, ":"))

(***************************************************************************)
(* The handler's fields after DbHandler.__init__, and the three tables, as *)
(* sets of rows, after prepare() has created them.                         *)
(***************************************************************************)
DbHandlerInit ==
    [document_id |-> -1, s_id |-> -1, w_real_id |-> -1, time_id |-> -1,
     start_time |-> << >>, start_s_id |-> -1, start_w_id |-> -1,
     end_time |-> << >>, end_s_id |-> -1, end_w_id |-> -1]

EmptyTables == [words |-> {}, meta |-> {}, time |-> {}]

\* The columns of the natural keys (ALTER TABLE ... ADD PRIMARY KEY).
\* WordsKey without the document.
WordsKey_position(r) == <<r.SentenceId, r.WordId>>

WordsKey(r) == <<r.DocumentId, r.SentenceId, r.WordId>>

MetaKey(r) == <<r.DocumentId, r.Key>>

TimeKey(r) == <<r.DocumentId, r.TimeId, r.StartSentenceId>>

\* What the engine accepts for an interval column: the literal is coerced
\* when the statement is analysed, and '' is no interval.
IsInterval(t) == t # << >>

\* The outcome of one statement: the tables after it and the exception it
\* raised ("none" if none).
Outcome(db, raised) == [db |-> db, raised |-> raised]

\* The rows the statements carry, column by column, from the parameters of
\* insert_table_words, insert_table_meta and insert_table_time.
WordsRow(doc_id, s_id, w_real_id, word) ==
    [DocumentId |-> doc_id, SentenceId |-> s_id, WordId |-> w_real_id,
     Word |-> word]

MetaRow(doc_id, key, value) ==
    [DocumentId |-> doc_id, Key |-> key, Value |-> value]

TimeRow(doc_id, time_id, s1, w1, start_time, s2, w2, end_time) ==
    [DocumentId |-> doc_id, TimeId |-> time_id,
     StartSentenceId |-> s1, StartWordId |-> w1, StartTime |-> start_time,
     EndSentenceId |-> s2, EndWordId |-> w2, EndTime |-> end_time]

\* insert_table_words without the guard of the LEFT JOIN: a plain INSERT.
insert_table_words_unguarded(db, row) ==
    Outcome([db EXCEPT !.words = @ \cup {row}], "none")

\* insert_table_words as an upsert: the row replaces the row of its key.
insert_table_words_replacing(db, row) ==
    Outcome([db EXCEPT !.words =
                 {r \in @ : WordsKey(r) # WordsKey(row)} \cup {row}], "none")

\* INSERT INTO words_<lang> SELECT ... FROM mutex LEFT JOIN words_<lang>
\* ON <key columns equal> WHERE i=0 AND DocumentId IS NULL: the SELECT yields
\* the literal row when no row joins, and no row otherwise.  A NULL Word
\* violates NOT NULL only when the row is actually inserted.
insert_table_words(db, row) ==
    IF \E r \in db.words : WordsKey(r) = WordsKey(row)
    THEN Outcome(db, "none")
    ELSE IF row.Word = None
    THEN Outcome(db, "IntegrityError")
    ELSE Outcome([db EXCEPT !.words = @ \cup {row}], "none")

insert_table_meta(db, row) ==
    IF \E r \in db.meta : MetaKey(r) = MetaKey(row)
    THEN Outcome(db, "none")
    ELSE IF row.Value = None
    THEN Outcome(db, "IntegrityError")
    ELSE Outcome([db EXCEPT !.meta = @ \cup {row}], "none")

insert_table_time(db, row) ==
    IF ~IsInterval(row.StartTime) \/ ~IsInterval(row.EndTime)
    THEN Outcome(db, "DataError")
    ELSE IF \E r \in db.time : TimeKey(r) = TimeKey(row)
    THEN Outcome(db, "none")
    ELSE Outcome([db EXCEPT !.time = @ \cup {row}], "none")

(***************************************************************************)
(* XML elements.  An element is [tag, attrib, text]; attrib is the dict of *)
(* its attributes, text is None for an element without text.  A parsed     *)
(* file is a tree [node, kids], kids in document order.                    *)
(***************************************************************************)
NoAttrib == [k \in {} |-> << >>]

Element(tag, attrib, text) == [tag |-> tag, attrib |-> attrib, text |-> text]

Tree(node, kids) == [node |-> node, kids |-> kids]

\* str.startswith, on paths.
startswith(path, prefix) ==
    Len(path) >= Len(prefix) /\ SubSeq(path, 1, Len(prefix)) = prefix

\* f"{parent_path}.{this_path}" of pre_order_traversal: the tag <document>
\* contributes the empty string.
child_path(parent_path, node) ==
    parent_path \o <<".">>
        \o (IF node.tag = "document" THEN << >> ELSE <<node.tag>>)

(***************************************************************************)
(* History kept beside the handler, written by the steps of write_node it  *)
(* observes and read by no step of the program:                            *)
(*   pending     an open time node was visited in this file and no close   *)
(*               node since                                                *)
(*   openFile    the file whose open node set time_id and start_time       *)
(*               (0: none yet)                                             *)
(*   openClosed  a close node followed that open node within its file      *)
(*   startSrc    the visit (the number of the write_node call) of the word *)
(*               that supplied start_w_id (0: none yet)                    *)
(*   curSrc      the visit of the word that supplied w_real_id             *)
(*   firstSrc    the visit of the first word visited since the last close  *)
(*               node, or since construction (0: no word since)            *)
(*   lastWord    the <<sentence id, word id>> in the id of the word        *)
(*               visited last (<< >>: none yet)                            *)
(***************************************************************************)
HistoryInit ==
    [pending |-> FALSE, openFile |-> 0, openClosed |-> FALSE,
     startSrc |-> 0, curSrc |-> 0, firstSrc |-> 0, lastWord |-> << >>]

\* What one call of write_node leaves: the handler, the tables, the history,
\* the exception raised ("none" if none), the table of the INSERT executed
\* ("none" if none was), the row that INSERT carried and, for a TimeSpan
\* row, the visits that supplied its start and its end position.
Result(self, db, g, raised, wrote, rows, src) ==
    [self |-> self, db |-> db, g |-> g, raised |-> raised, wrote |-> wrote,
     rows |-> rows, src |-> src]

Quiet(self, db, g) == Result(self, db, g, "none", "none", {}, <<0, 0>>)

Raise(self, db, g, exc) == Result(self, db, g, exc, "none", {}, <<0, 0>>)

\* The result of a call that executed an INSERT: the exception of the
\* statement, if any, is the call's.
Inserted(self, g, o, wrote, row, src) ==
    Result(self, o.db, g, o.raised, wrote, {row}, src)

\* write_node, tag 'document' (line 216).
visit_document(self, db, g, node) ==
    IF "id" \notin DOMAIN node.attrib THEN Raise(self, db, g, "KeyError")
    ELSE IF ~py_int(node.attrib.id).ok THEN Raise(self, db, g, "ValueError")
    ELSE Quiet([self EXCEPT !.document_id = py_int(node.attrib.id).val],
               db, g)

\* write_node, tag 's' (line 236).
visit_s(self, db, g, node) ==
    IF "id" \notin DOMAIN node.attrib THEN Raise(self, db, g, "KeyError")
    ELSE IF ~py_int(node.attrib.id).ok THEN Raise(self, db, g, "ValueError")
    ELSE Quiet([self EXCEPT !.s_id = py_int(node.attrib.id).val], db, g)

\* open_span that also clears the recorded start position.
open_span_clearing(self, db, g, t, at) ==
    IF ~t.ok THEN Raise(self, db, g, t.err)
    ELSE Quiet([self EXCEPT !.start_time = t.val, !.start_s_id = -1], db,
               [g EXCEPT !.pending = TRUE, !.openFile = at[1],
                         !.openClosed = FALSE])

\* write_node, line 220: start_time = parse_time(value), t the parsed value.
open_span(self, db, g, t, at) ==
    IF ~t.ok THEN Raise(self, db, g, t.err)
    ELSE Quiet([self EXCEPT !.start_time = t.val], db,
               [g EXCEPT !.pending = TRUE, !.openFile = at[1],
                         !.openClosed = FALSE])

\* write_node, line 219: time_id = int(id[1:-1]), i the parsed number.  It
\* is assigned before the value attribute is read.
open_id(self, db, g, node, i, at) ==
    IF ~i.ok THEN Raise(self, db, g, "ValueError")
    ELSE IF "value" \notin DOMAIN node.attrib
    THEN Raise([self EXCEPT !.time_id = i.val], db, g, "KeyError")
    ELSE open_span([self EXCEPT !.time_id = i.val], db, g,
                   parse_time(node.attrib.value), at)

\* visit_time_open reading the number from the whole id before the suffix.
visit_time_open_whole(self, db, g, node, at) ==
    open_id(self, db, g, node,
            py_int(SubSeq(node.attrib.id, 1, Len(node.attrib.id) - 1)), at)

\* write_node, tag 'time', id ending in 'S' (lines 219-220).
visit_time_open(self, db, g, node, at) ==
    open_id(self, db, g, node,
            py_int(SubSeq(node.attrib.id, 2, Len(node.attrib.id) - 1)), at)

\* time_call with the start and the end position exchanged.
time_call_swapped(self, g) ==
    [row |-> TimeRow(self.document_id, self.time_id, self.s_id,
                     self.w_real_id, self.start_time, self.start_s_id,
                     self.start_w_id, self.end_time),
     src |-> <<g.curSrc, g.startSrc>>]

\* write_node, lines 224-233: the arguments of insert_table_time, and the
\* visits that supplied the start and the end position passed.
time_call(self, g) ==
    [row |-> TimeRow(self.document_id, self.time_id, self.start_s_id,
                     self.start_w_id, self.start_time, self.s_id,
                     self.w_real_id, self.end_time),
     src |-> <<g.startSrc, g.curSrc>>]

\* write_node, line 234, after the statement of call c left outcome o.
span_closed(self, g, c, o, at) ==
    IF o.raised # "none" THEN Inserted(self, g, o, "time", c.row, c.src)
    ELSE Inserted([self EXCEPT !.start_s_id = -1],
                  [g EXCEPT !.pending = FALSE, !.firstSrc = 0,
                            !.openClosed = (@ \/ g.openFile = at[1])],
                  o, "time", c.row, c.src)

\* write_node, lines 224-233, for the call c.
close_call(self, db, g, c, at) ==
    span_closed(self, g, c, insert_table_time(db, c.row), at)

\* close_span executing the INSERT with the end_time at hand before the
\* value is parsed.
close_span_insert_first(self, db, g, t, at) ==
    IF ~t.ok
    THEN [close_call(self, db, g, time_call(self, g), at)
              EXCEPT !.raised = t.err]
    ELSE close_call([self EXCEPT !.end_time = t.val], db, g,
                    time_call([self EXCEPT !.end_time = t.val], g), at)

\* write_node, line 223: end_time = parse_time(value), t the parsed value.
close_span(self, db, g, t, at) ==
    IF ~t.ok THEN Raise(self, db, g, t.err)
    ELSE close_call([self EXCEPT !.end_time = t.val], db, g,
                    time_call([self EXCEPT !.end_time = t.val], g), at)

\* write_node, tag 'time', any other id (lines 222-234).
visit_time_close(self, db, g, node, at) ==
    IF "value" \notin DOMAIN node.attrib THEN Raise(self, db, g, "KeyError")
    ELSE close_span(self, db, g, parse_time(node.attrib.value), at)

\* write_node, tag 'time' (lines 217-234): id[-1] of '' raises IndexError.
visit_time(self, db, g, node, at) ==
    IF "id" \notin DOMAIN node.attrib THEN Raise(self, db, g, "KeyError")
    ELSE IF node.attrib.id = << >> THEN Raise(self, db, g, "IndexError")
    ELSE IF node.attrib.id[Len(node.attrib.id)] = "S"
    THEN visit_time_open(self, db, g, node, at)
    ELSE visit_time_close(self, db, g, node, at)

\* capture_start without its test of start_s_id: every word becomes the
\* start position.
capture_start_always(self, g) ==
    [self |-> [self EXCEPT !.start_s_id = self.s_id,
                           !.start_w_id = self.w_real_id],
     g |-> [g EXCEPT !.startSrc = g.curSrc]]

\* write_node, lines 248-250: the first word after a close node (or after
\* construction) becomes the start position.
capture_start(self, g) ==
    IF self.start_s_id < 0
    THEN [self |-> [self EXCEPT !.start_s_id = self.s_id,
                                !.start_w_id = self.w_real_id],
          g |-> [g EXCEPT !.startSrc = g.curSrc]]
    ELSE [self |-> self, g |-> g]

\* write_node, lines 243-244: the two parts of the word id become the
\* current position.
set_position(self, g, s, w, at) ==
    [self |-> [self EXCEPT !.s_id = s, !.w_real_id = w],
     g |-> [g EXCEPT !.curSrc = at[2], !.lastWord = <<s, w>>,
                     !.firstSrc = IF @ = 0 THEN at[2] ELSE @]]

\* write_node, lines 248-250, c the handler with the start position.
word_done(c, o, row) == Inserted(c.self, c.g, o, "words", row, <<0, 0>>)

\* write_node, lines 245-250, after the statement for row left outcome o:
\* an exception of the statement leaves the start position as it was.
word_inserted(p, o, row) ==
    IF o.raised # "none" THEN word_done(p, o, row)
    ELSE word_done(capture_start(p.self, p.g), o, row)

\* write_node, lines 245-247, p the handler with the current position.
word_insert(p, db, row) == word_inserted(p, insert_table_words(db, row), row)

word_call(p, db, node) ==
    word_insert(p, db, WordsRow(p.self.document_id, p.self.s_id,
                                p.self.w_real_id, node.text))

\* write_node, lines 242-244, on the pieces of the split id: s_id is
\* assigned before the second piece is read.
word_ids(self, db, g, node, w_id_token, at) ==
    IF ~py_int(w_id_token[1]).ok THEN Raise(self, db, g, "ValueError")
    ELSE IF Len(w_id_token) < 2
    THEN Raise([self EXCEPT !.s_id = py_int(w_id_token[1]).val], db, g,
               "IndexError")
    ELSE IF ~py_int(w_id_token[2]).ok
    THEN Raise([self EXCEPT !.s_id = py_int(w_id_token[1]).val], db, g,
               "ValueError")
    ELSE word_call(set_position(self, g, py_int(w_id_token[1]).val,
                                py_int(w_id_token[2]).val, at), db, node)

\* write_node, tag 'w' (lines 241-250).
visit_w(self, db, g, node, at) ==
    IF "id" \notin DOMAIN node.attrib THEN Raise(self, db, g, "KeyError")
    ELSE word_ids(self, db, g, node, py_split(node.attrib.id, "."), at)

\* write_node, lines 254-255.
meta_insert(self, db, g, row) ==
    Inserted(self, g, insert_table_meta(db, row), "meta", row, <<0, 0>>)

\* write_node, any other tag (lines 251-255): `if node.text` is false for
\* None and for ''.
visit_other(self, db, g, node, parent_path) ==
    IF startswith(parent_path, <<"meta", ".">>)
       /\ node.text # None /\ node.text # ""
    THEN meta_insert(self, db, g,
                     MetaRow(self.document_id, node.tag, node.text))
    ELSE Quiet(self, db, g)

\* DbHandler.write_node.  at = <<file number, call number>>.
write_node(self, db, g, node, parent_path, at) ==
    CASE node.tag = "document" -> visit_document(self, db, g, node)
      [] node.tag = "time" -> visit_time(self, db, g, node, at)
      [] node.tag = "s" -> visit_s(self, db, g, node)
      [] node.tag = "w" -> visit_w(self, db, g, node, at)
      [] OTHER -> visit_other(self, db, g, node, parent_path)

(***************************************************************************)
(* Inputs.  Either the files are given, as trees, or the environment       *)
(* supplies each next element from input.nodes as the traversal reaches    *)
(* it, so that every tree over those elements within the bounds is walked. *)
(***************************************************************************)
Chars(n) == py_str(n)

WordId(s, w) == Chars(s) \o <<".">> \o Chars(w)

Value1 == <<"0", ":", "0", "0", ":", "0", "1", ",", "0", "0", "0">>

Value2 == <<"0", ":", "0", "0", ":", "0", "2", ",", "5", "0", "0">>

Value3 == <<"2", "5", ":", "1", "0", ":", "3", "0", ",", "5">>

Document(d) == Element("document", [id |-> Chars(d)], None)

Sentence(s) == Element("s", [id |-> Chars(s)], None)

Word(s, w, text) == Element("w", [id |-> WordId(s, w)], text)

Time(id, value) == Element("time", [id |-> id, value |-> value], None)

FreeNodes ==
    {Document(1), Sentence(2), Word(1, 1, "a"), Word(2, 1, "b"),
     Time(<<"T", "1", "S">>, Value1), Time(<<"T", "1", "E">>, Value2),
     Element("meta", NoAttrib, None), Element("title", NoAttrib, "Foo"),
     Element("title", NoAttrib, None)}

FreeInput == [free |-> TRUE, nodes |-> FreeNodes, files |-> << >>]

GivenInput(files) == [free |-> FALSE, nodes |-> {}, files |-> files]

(***************************************************************************)
(* What the last call did, for the properties to read: the node and its    *)
(* ancestors, the INSERT executed and its row, whether the tables changed  *)
(* (added), whether the row's natural key was present before (dup), the    *)
(* exception, and the history as the call found it.                        *)
(***************************************************************************)
NoEvent ==
    [at |-> <<0, 0>>, node |-> Element("", NoAttrib, None), docAnc |-> {},
     underMeta |-> FALSE, wrote |-> "none", rows |-> {}, added |-> FALSE,
     dup |-> FALSE, raised |-> "none", pending |-> FALSE, openFile |-> 0,
     openClosed |-> FALSE, src |-> <<0, 0>>, first |-> 0]

\* The document_id of the nearest enclosing <document> among the active
\* calls, as a set: empty when there is none.
DocAncestor(stk) ==
    LET docs == {i \in 1..Len(stk) : stk[i].node.tag = "document"}
    IN  IF docs = {} THEN {}
        ELSE LET i == CHOOSE k \in docs : \A j \in docs : j <= k
             IN  {py_int(stk[i].node.attrib.id).val}

\* The node lies below a <meta> child of a <document>.
UnderMeta(stk) ==
    \E i \in 2..Len(stk) :
        stk[i].node.tag = "meta" /\ stk[i - 1].node.tag = "document"

KeyPresent(db, wrote, rows) ==
    \E row \in rows :
        CASE wrote = "words" -> \E r \in db.words : WordsKey(r) = WordsKey(row)
          [] wrote = "meta" -> \E r \in db.meta : MetaKey(r) = MetaKey(row)
          [] wrote = "time" -> \E r \in db.time : TimeKey(r) = TimeKey(row)
          [] OTHER -> FALSE

Event(at, node, stk, r) ==
    [at |-> at, node |-> node, docAnc |-> DocAncestor(stk),
     underMeta |-> UnderMeta(stk), wrote |-> r.wrote, rows |-> r.rows,
     added |-> r.db # tables, dup |-> KeyPresent(tables, r.wrote, r.rows),
     raised |-> r.raised, pending |-> hist.pending,
     openFile |-> hist.openFile, openClosed |-> hist.openClosed,
     src |-> r.src, first |-> hist.firstSrc]

(***************************************************************************)
(* The command line, psycopg2 and the PostgreSQL server.  A table name is  *)
(* the sequence of the pieces its f-string joins: <<"words_", lang>>.      *)
(* The catalog is [up, dbs, tables, pks, before]: whether the server       *)
(* accepts connections, its databases, the tables of the target database   *)
(* and those with a primary key, by the names the server stores; `before`  *)
(* keeps the databases and tables as they were when the process started.   *)
(***************************************************************************)
\* The default of --db-name, and the database admin_connect names.
DbName == "opensubtitle"

AdminDb == "postgres"

Args(db_product, lang, db_user, db_password) ==
    [db_product |-> db_product, lang |-> lang, db_name |-> DbName,
     db_user |-> db_user, db_password |-> db_password,
     db_admin_password |-> None]

\* `if x:` of an optional string.
Truthy(v) == v # None /\ v # ""

\* credential[k] = v, when cond.
Put(credential, cond, k, v) ==
    IF cond THEN (k :> v) @@ credential ELSE credential

\* PostgreSQLHandler.connect, lines 273-278.
connect_credential(a) ==
    Put(Put(("dbname" :> a.db_name), Truthy(a.db_user), "", a.db_password),
        Truthy(a.db_password), "password", a.db_password)

\* PostgreSQLHandler.admin_connect, lines 265-267.
admin_credential(a) ==
    Put(("dbname" :> AdminDb), Truthy(a.db_admin_password), "password",
        a.db_admin_password)

\* psycopg2.connect(**credential): the keywords whose value is None are
\* dropped, the others joined into a connection string; libpq rejects a
\* parameter with an empty name, and the server a database it does not have.
psycopg2_connect(credential, cat) ==
    IF "" \in {k \in DOMAIN credential : credential[k] # None}
    THEN [ok |-> FALSE, db |-> None, raised |-> "ProgrammingError"]
    ELSE IF ~cat.up \/ credential["dbname"] \notin cat.dbs
    THEN [ok |-> FALSE, db |-> None, raised |-> "OperationalError"]
    ELSE [ok |-> TRUE, db |-> credential["dbname"], raised |-> "none"]

\* A cursor: whether a statement was executed on it, and the rows it got.
Cursor(executed, rows) == [executed |-> executed, rows |-> rows]

\* What a step of the handler leaves: its connection, the calls so far, the
\* catalog, the exception raised, the cursor and the value returned.
Sys(c, l, cat) ==
    [conn |-> c, calls |-> l, cat |-> cat, raised |-> "none",
     cur |-> Cursor(FALSE, << >>), val |-> FALSE]

Failed(t, exc) == [t EXCEPT !.raised = exc]

Logged(t, op, arg) ==
    [t EXCEPT !.calls = Append(@, [op |-> op, arg |-> arg, on |-> t.conn])]

\* self.conn = psycopg2.connect(...): assigned only when connect returns.
opened(t, r) ==
    IF r.ok THEN [t EXCEPT !.conn = r.db] ELSE Failed(t, r.raised)

connect_with(t, op, credential) ==
    opened(Logged(t, op, credential), psycopg2_connect(credential, t.cat))

\* PostgreSQLHandler.connect.
connect(t, a) == connect_with(t, "connect", connect_credential(a))

\* PostgreSQLHandler.admin_connect.
admin_connect(t, a) ==
    connect_with(t, "admin_connect", admin_credential(a))

\* The server folds an unquoted identifier to lower case.
pg_lower(piece) == IF piece = "EN" THEN "en" ELSE piece

pg_fold(name) == [i \in DOMAIN name |-> pg_lower(name[i])]

Sql(kind, name) == [kind |-> kind, name |-> name]

Rows(t, rows) == [t EXCEPT !.cur = Cursor(TRUE, rows)]

\* The server executes a statement of DbHandler.py.  The name of a string
\* literal is compared as written; the name of an identifier is folded.
pg_execute(t, stmt) ==
    CASE stmt.kind = "SELECT datname" ->
             Rows(t, IF stmt.name \in t.cat.dbs THEN <<stmt.name>> ELSE << >>)
      [] stmt.kind = "CREATE DATABASE" ->
             IF stmt.name \in t.cat.dbs THEN Failed(t, "DuplicateDatabase")
             ELSE [t EXCEPT !.cat.dbs = @ \cup {stmt.name}]
      [] stmt.kind = "SELECT EXISTS" ->
             Rows(t, <<t.conn = DbName /\ stmt.name \in t.cat.tables>>)
      [] stmt.kind = "CREATE TABLE" ->
             IF pg_fold(stmt.name) \in t.cat.tables
             THEN Failed(t, "DuplicateTable")
             ELSE [t EXCEPT !.cat.tables = @ \cup {pg_fold(stmt.name)}]
      [] stmt.kind = "ALTER TABLE ADD PRIMARY KEY" ->
             IF pg_fold(stmt.name) \notin t.cat.tables
             THEN Failed(t, "UndefinedTable")
             ELSE IF pg_fold(stmt.name) \in t.cat.pks
             THEN Failed(t, "InvalidTableDefinition")
             ELSE [t EXCEPT !.cat.pks = @ \cup {pg_fold(stmt.name)}]

\* DbHandler.execute: self.conn.cursor() of None raises AttributeError.
execute(t, stmt) ==
    IF t.conn = None THEN Failed(t, "AttributeError")
    ELSE pg_execute(Logged(t, "execute", stmt), stmt)

\* cursor.fetchone(): ProgrammingError on a cursor nothing was executed on.
fetchone(t, cur) ==
    IF ~cur.executed THEN Failed(t, "ProgrammingError")
    ELSE [t EXCEPT !.val = (cur.rows # << >>)]

\* is_db_present, lines 290-292: the row is fetched from a new cursor of the
\* connection, not from the cursor execute returned.
db_fetched(t) ==
    IF t.raised # "none" THEN t ELSE fetchone(t, Cursor(FALSE, << >>))

\* PostgreSQLHandler.is_db_present.
is_db_present(t, a) ==
    db_fetched(execute(t, Sql("SELECT datname", a.db_name)))

\* is_table_present, line 300: cur.fetchone()[0] of the cursor of execute.
table_fetched(t) ==
    IF t.raised # "none" THEN t ELSE [t EXCEPT !.val = t.cur.rows[1]]

\* PostgreSQLHandler.is_table_present.
is_table_present(t, table_name) ==
    table_fetched(execute(t, Sql("SELECT EXISTS", table_name)))

\* DbHandler.create_db.
create_db(t, db_name) == execute(t, Sql("CREATE DATABASE", db_name))

\* ensure_table_*: the ALTER TABLE after the CREATE TABLE.
table_created(t, table_name) ==
    IF t.raised # "none" THEN t
    ELSE execute(t, Sql("ALTER TABLE ADD PRIMARY KEY", table_name))

\* table_checked that creates nothing.
table_checked_skips(t, table_name) == t

\* ensure_table_*: return if the table is present, else create it.
table_checked(t, table_name) ==
    IF t.raised # "none" THEN t
    ELSE IF t.val THEN t
    ELSE table_created(execute(t, Sql("CREATE TABLE", table_name)),
                       table_name)

\* ensure_table_words, ensure_table_meta, ensure_table_time.
ensure_table(t, table_name) ==
    table_checked(is_table_present(t, table_name), table_name)

WordsTable(a) == <<"words_", a.lang>>

MetaTable == <<"meta">>

TimeTable(a) == <<"time_", a.lang>>

\* prepare, line 164: connect again after create_db.
db_created(t, a) == IF t.raised # "none" THEN t ELSE connect(t, a)

\* db_checked that creates the database whatever the check said.
db_checked_creates(t, a, exc) ==
    db_created(create_db([t EXCEPT !.raised = "none"], a.db_name), a)

\* prepare, lines 157-164: `raise` re-raises the exception of connect.
db_checked(t, a, exc) ==
    IF t.raised # "none" THEN t
    ELSE IF t.val THEN Failed(t, exc)
    ELSE db_created(create_db(t, a.db_name), a)

\* admin_connected that creates the database without asking is_db_present.
admin_connected_unchecked(t, a, exc) ==
    IF t.raised # "none" THEN t ELSE db_created(create_db(t, a.db_name), a)

\* prepare, lines 156-157: is_db_present after admin_connect has returned.
admin_connected(t, a, exc) ==
    IF t.raised # "none" THEN t ELSE db_checked(is_db_present(t, a), a, exc)

\* prepare, lines 154-164: the except clause, exc the exception of connect.
prepare_except(t, a, exc) == admin_connected(admin_connect(t, a), a, exc)

\* The state the traversal starts from: prepare has returned.
DefaultArgs == Args("postgresql", "en", None, None)

AllTables(a) == {pg_fold(WordsTable(a)), pg_fold(MetaTable),
                 pg_fold(TimeTable(a))}

Catalog(up, dbs, tbls) ==
    [up |-> up, dbs |-> dbs, tables |-> tbls, pks |-> tbls,
     before |-> [dbs |-> dbs, tables |-> tbls]]

NoParse == [in |-> << >>, once |-> TimeError("none"), twice |-> TimeError("none")]

Prepared ==
    /\ args = DefaultArgs
    /\ conn = DbName
    /\ calls = << >>
    /\ catalog = Catalog(TRUE, {AdminDb, DbName}, AllTables(DefaultArgs))
    /\ workers = << >>
    /\ parsed = NoParse

(***************************************************************************)
(* main, export_xml_file and pre_order_traversal.                          *)
(***************************************************************************)
Init ==
    /\ handler = DbHandlerInit
    /\ tables = EmptyTables
    /\ hist = HistoryInit
    /\ pc = "main"
    /\ stack = << >>
    /\ fileNo = 0
    /\ count = 0
    /\ input = FreeInput
    /\ ev = NoEvent
    /\ Prepared

\* autocommit with the attribute left at its default, False.
Autocommit_off == FALSE

\* self.conn.autocommit = True (lines 269 and 281): the server commits every
\* statement as it ends.
Autocommit == TRUE

\* What the server keeps of the tables when the process ends by an
\* exception: the connection is dropped and the open transaction, if any,
\* rolled back to the rows the process found at its start, none.
AtExit(db) == IF Autocommit THEN db ELSE EmptyTables

\* One call pre_order_traversal(node, parent_path), r what its write_node
\* left: then the frame whose loop walks the children.  An exception of
\* write_node is caught nowhere: it ends main.
Called(t, parent_path, callers, at, r) ==
    /\ handler' = r.self
    /\ tables' = IF r.raised # "none" THEN AtExit(r.db) ELSE r.db
    /\ hist' = r.g
    /\ count' = count + 1
    /\ ev' = Event(at, t.node, callers, r)
    /\ IF r.raised # "none"
       THEN pc' = "crashed" /\ stack' = callers
       ELSE /\ pc' = "walk"
            /\ stack' = Append(callers,
                   [node |-> t.node, kids |-> t.kids,
                    path |-> child_path(parent_path, t.node)])

Call(t, parent_path, callers) ==
    Called(t, parent_path, callers, <<fileNo, count + 1>>,
           write_node(handler, tables, hist, t.node, parent_path,
                      <<fileNo, count + 1>>))

\* main, lines 117-118: the next file of next_file; export_xml_file parses it.
ExportXmlFile ==
    /\ pc = "main"
    /\ IF input.free THEN count < MaxVisits ELSE fileNo < Len(input.files)
    /\ pc' = "root"
    /\ fileNo' = fileNo + 1
    /\ hist' = [hist EXCEPT !.pending = FALSE]
    /\ UNCHANGED <<handler, tables, stack, count, input, ev>>
    /\ UNCHANGED sysvars

\* export_xml_file, line 76: pre_order_traversal(root, '', args).
TraverseRoot ==
    /\ pc = "root"
    /\ \E t \in (IF input.free THEN {Tree(n, << >>) : n \in input.nodes}
                 ELSE {input.files[fileNo]}) :
           Call(t, << >>, << >>)
    /\ UNCHANGED <<fileNo, input>>
    /\ UNCHANGED sysvars

\* The loop of pre_order_traversal taking the children from the last to the
\* first.
TraverseChild_reversed ==
    /\ pc = "walk"
    /\ stack # << >>
    /\ LET top == stack[Len(stack)]
           rest == SubSeq(stack, 1, Len(stack) - 1)
       IN  IF input.free
           THEN /\ count < MaxVisits
                /\ Len(stack) < MaxDepth
                /\ \E n \in input.nodes : Call(Tree(n, << >>), top.path, stack)
           ELSE /\ top.kids # << >>
                /\ Call(top.kids[Len(top.kids)], top.path,
                        Append(rest, [top EXCEPT
                            !.kids = SubSeq(@, 1, Len(@) - 1)]))
    /\ UNCHANGED <<fileNo, input>>
    /\ UNCHANGED sysvars

\* pre_order_traversal, lines 67-68: the loop takes the next child.
TraverseChild ==
    /\ pc = "walk"
    /\ stack # << >>
    /\ LET top == stack[Len(stack)]
           rest == SubSeq(stack, 1, Len(stack) - 1)
       IN  IF input.free
           THEN /\ count < MaxVisits
                /\ Len(stack) < MaxDepth
                /\ \E n \in input.nodes : Call(Tree(n, << >>), top.path, stack)
           ELSE /\ top.kids # << >>
                /\ Call(Head(top.kids), top.path,
                        Append(rest, [top EXCEPT !.kids = Tail(@)]))
    /\ UNCHANGED <<fileNo, input>>
    /\ UNCHANGED sysvars

\* pre_order_traversal returns when the loop has no child left; the return
\* of the root's call ends export_xml_file.
Return ==
    /\ pc = "walk"
    /\ stack # << >>
    /\ input.free \/ stack[Len(stack)].kids = << >>
    /\ stack' = SubSeq(stack, 1, Len(stack) - 1)
    /\ pc' = IF Len(stack) = 1 THEN "main" ELSE "walk"
    /\ UNCHANGED <<handler, tables, hist, fileNo, count, input, ev>>
    /\ UNCHANGED sysvars

Next == ExportXmlFile \/ TraverseRoot \/ TraverseChild \/ Return

Spec == Init /\ [][Next]_vars

(***************************************************************************)
(* The insert primitives called one at a time, with values of the columns' *)
(* types: SpecInsert.                                                      *)
(***************************************************************************)
InsertDocs == {1}

InsertSentences == {1, 2}

InsertWordIds == {1}

InsertTexts == {"a", "b"}

InsertKeys == {"title", "year"}

InsertValues == {"Foo", "Bar"}

InsertTimeIds == {1, 2}

InsertTimes == {parse_time(Value1).val, parse_time(Value2).val}

Statement(wrote, row, o) ==
    /\ tables' = o.db
    /\ ev' = [NoEvent EXCEPT !.wrote = wrote, !.rows = {row},
                             !.added = o.db # tables,
                             !.dup = KeyPresent(tables, wrote, {row}),
                             !.raised = o.raised]
    /\ UNCHANGED <<handler, hist, pc, stack, fileNo, count, input>>
    /\ UNCHANGED sysvars

InitInsert ==
    /\ handler = DbHandlerInit
    /\ tables = EmptyTables
    /\ hist = HistoryInit
    /\ pc = "insert"
    /\ stack = << >>
    /\ fileNo = 0
    /\ count = 0
    /\ input = GivenInput(<< >>)
    /\ ev = NoEvent
    /\ Prepared

WordsStatement(row) == Statement("words", row, insert_table_words(tables, row))

MetaStatement(row) == Statement("meta", row, insert_table_meta(tables, row))

TimeStatement(row) == Statement("time", row, insert_table_time(tables, row))

InsertWords ==
    /\ pc = "insert"
    /\ \E d \in InsertDocs, s \in InsertSentences, w \in InsertWordIds,
          word \in InsertTexts :
           WordsStatement(WordsRow(d, s, w, word))

InsertMeta ==
    /\ pc = "insert"
    /\ \E d \in InsertDocs, key \in InsertKeys, value \in InsertValues :
           MetaStatement(MetaRow(d, key, value))

InsertTime ==
    /\ pc = "insert"
    /\ \E d \in InsertDocs, t \in InsertTimeIds, w \in InsertWordIds,
          et \in InsertTimes :
           TimeStatement(TimeRow(d, t, 1, w, parse_time(Value1).val,
                                 1, w, et))

NextInsert == InsertWords \/ InsertMeta \/ InsertTime

SpecInsert == InitInsert /\ [][NextInsert]_vars

(***************************************************************************)
(* One file imported MaxImports times by the same handler: SpecReimport.   *)
(* The file is a <document> with up to MaxKids children.                   *)
(***************************************************************************)
Leaf(node) == Tree(node, << >>)

ReimportKids ==
    {Leaf(Word(1, 1, "a")), Leaf(Word(2, 1, "b")),
     Leaf(Time(<<"T", "1", "S">>, Value1)),
     Leaf(Time(<<"T", "1", "E">>, Value2))}

ReimportFiles ==
    {Tree(Document(1), kids) :
        kids \in UNION {[1..n -> ReimportKids] : n \in 1..MaxKids}}

InitReimport ==
    /\ handler = DbHandlerInit
    /\ tables = EmptyTables
    /\ hist = HistoryInit
    /\ pc = "main"
    /\ stack = << >>
    /\ fileNo = 0
    /\ count = 0
    /\ \E f \in ReimportFiles : input = GivenInput([i \in 1..MaxImports |-> f])
    /\ ev = NoEvent
    /\ Prepared

SpecReimport == InitReimport /\ [][Next]_vars

(***************************************************************************)
(* The end-to-end scenario: one document d with one sentence s, its words  *)
(* s.1 .. s.n, then a time-open and a time-close node: SpecScenario.  The  *)
(* time ids are the digits of t with the suffix, behind `prefix`; the time *)
(* nodes are the last children of the sentence (inS) or follow it.         *)
(***************************************************************************)
WordText(i) == CASE i = 1 -> "Hello" [] i = 2 -> "world" [] OTHER -> "again"

ScenarioParams ==
    [d : {42}, s : {1, 2}, n : 1..MaxWords, t : {1, 12},
     prefix : {<< >>, <<"T">>}, close : {Value2, Value3}, inS : BOOLEAN]

ScenarioDoc(p) ==
    LET words == [i \in 1..p.n |-> Leaf(Word(p.s, i, WordText(i)))]
        times == <<Leaf(Time(p.prefix \o Chars(p.t) \o <<"S">>, Value1)),
                   Leaf(Time(p.prefix \o Chars(p.t) \o <<"E">>, p.close))>>
    IN  IF p.inS
        THEN Tree(Document(p.d), <<Tree(Sentence(p.s), words \o times)>>)
        ELSE Tree(Document(p.d), <<Tree(Sentence(p.s), words)>> \o times)

\* The rows the scenario is to leave.
ScenarioRows(p) ==
    [words |-> {WordsRow(p.d, p.s, i, WordText(i)) : i \in 1..p.n},
     meta |-> {},
     time |-> {TimeRow(p.d, p.t, p.s, 1, parse_time(Value1).val,
                       p.s, p.n, parse_time(p.close).val)}]

InitScenario ==
    /\ handler = DbHandlerInit
    /\ tables = EmptyTables
    /\ hist = HistoryInit
    /\ pc = "main"
    /\ stack = << >>
    /\ fileNo = 0
    /\ count = 0
    /\ \E p \in ScenarioParams : input = GivenInput(<<ScenarioDoc(p)>>)
    /\ ev = NoEvent
    /\ Prepared

SpecScenario == InitScenario /\ [][Next]_vars

\* The traversal of the first file has ended, by return or by exception.
FirstFileEnded == pc = "crashed" \/ (pc = "main" /\ fileNo = 1)

(***************************************************************************)
(* main from its start: get_handler, prepare step by step, then the loop   *)
(* over the files: SpecMain.                                               *)
(***************************************************************************)
Products == {"postgresql", "mysql"}

Langs == {"en", "EN"}

Users == {None, "importer"}

Passwords == {None, "secret"}

MainArgs ==
    {Args(product, lang, user, password) :
        product \in Products, lang \in Langs, user \in Users,
        password \in Passwords}

\* The server as a process may find it: down or up, the target database
\* absent or present, any of the three tables created by an earlier run
\* with the same arguments.
MainCatalogs(a) ==
    {Catalog(up, {AdminDb}, {}) : up \in BOOLEAN}
        \cup {Catalog(up, {AdminDb, DbName}, tbls) :
                 up \in BOOLEAN, tbls \in SUBSET AllTables(a)}

MainFiles == <<Tree(Document(1), <<Leaf(Word(1, 1, "a"))>>)>>

InitMain ==
    /\ handler = DbHandlerInit
    /\ tables = EmptyTables
    /\ hist = HistoryInit
    /\ pc = "start"
    /\ stack = << >>
    /\ fileNo = 0
    /\ count = 0
    /\ input = GivenInput(MainFiles)
    /\ ev = NoEvent
    /\ args \in MainArgs
    /\ catalog \in MainCatalogs(args)
    /\ conn = None
    /\ calls = << >>
    /\ workers = << >>
    /\ parsed = NoParse

\* get_handler with a handler for every product.
get_handler_any(a) == "none"

\* DbHandler.get_handler: the exception it raises ("none": it returns a
\* PostgreSQLHandler).
get_handler(a) ==
    IF a.db_product = "postgresql" THEN "none" ELSE "UnsupportedDbError"

\* main, line 108: db_handler = DbHandler.get_handler(args).
GetHandler ==
    /\ pc = "start"
    /\ ev' = [NoEvent EXCEPT !.raised = get_handler(args)]
    /\ pc' = IF get_handler(args) = "none" THEN "prepare" ELSE "crashed"
    /\ UNCHANGED <<handler, tables, hist, stack, fileNo, count, input>>
    /\ UNCHANGED sysvars

\* A step of prepare left t: on an exception control goes to `caught`.
Stepped(t, next, caught) ==
    /\ conn' = t.conn
    /\ calls' = t.calls
    /\ catalog' = t.cat
    /\ ev' = [NoEvent EXCEPT !.raised = t.raised]
    /\ pc' = IF t.raised # "none" THEN caught ELSE next
    /\ UNCHANGED <<handler, tables, hist, stack, fileNo, count, input>>
    /\ UNCHANGED <<args, workers, parsed>>

\* prepare, lines 152-153.
PrepareConnect ==
    /\ pc = "prepare"
    /\ Stepped(connect(Sys(conn, calls, catalog), args),
               "ensure_table_words", "except")

\* prepare, lines 154-164.
PrepareExcept ==
    /\ pc = "except"
    /\ Stepped(prepare_except(Sys(conn, calls, catalog), args, ev.raised),
               "ensure_table_words", "crashed")

\* prepare, line 165.
EnsureTableWords ==
    /\ pc = "ensure_table_words"
    /\ Stepped(ensure_table(Sys(conn, calls, catalog), WordsTable(args)),
               "ensure_table_meta", "crashed")

\* prepare, line 166.
EnsureTableMeta ==
    /\ pc = "ensure_table_meta"
    /\ Stepped(ensure_table(Sys(conn, calls, catalog), MetaTable),
               "ensure_table_time", "crashed")

\* prepare, line 167; main goes on to its loop.
EnsureTableTime ==
    /\ pc = "ensure_table_time"
    /\ Stepped(ensure_table(Sys(conn, calls, catalog), TimeTable(args)),
               "main", "crashed")

NextMain ==
    \/ GetHandler
    \/ PrepareConnect
    \/ PrepareExcept
    \/ EnsureTableWords
    \/ EnsureTableMeta
    \/ EnsureTableTime
    \/ Next

SpecMain == InitMain /\ [][NextMain]_vars

(***************************************************************************)
(* parse_time applied to a time string, and again to what it returned:     *)
(* SpecParse.                                                              *)
(***************************************************************************)
ParseHours ==
    {<<"0">>, <<"3">>, <<"0", "3">>, <<"2", "3">>, <<"2", "4">>,
     <<"2", "5">>, <<"4", "8">>, <<"1", "0", "0">>}

ParseMinutes == {<<"0", "0">>, <<"0", "5">>, <<"5", "9">>}

ParseSeconds ==
    {<<"0", "1", ",", "0", "0", "0">>, <<"3", "0", ",", "5">>,
     <<"0", "9", ".", "2">>, <<"5">>, <<"0", "0">>}

ParseInputs ==
    {h \o <<":">> \o m \o <<":">> \o sec :
        h \in ParseHours, m \in ParseMinutes, sec \in ParseSeconds}

InitParse ==
    /\ handler = DbHandlerInit
    /\ tables = EmptyTables
    /\ hist = HistoryInit
    /\ pc = "parse"
    /\ stack = << >>
    /\ fileNo = 0
    /\ count = 0
    /\ input = GivenInput(<< >>)
    /\ ev = NoEvent
    /\ args = DefaultArgs
    /\ conn = DbName
    /\ calls = << >>
    /\ catalog = Catalog(TRUE, {AdminDb, DbName}, AllTables(DefaultArgs))
    /\ workers = << >>
    /\ \E t \in ParseInputs : parsed = [NoParse EXCEPT !.in = t]

\* parse_time(time_str).
ParseTime ==
    /\ pc = "parse"
    /\ parsed' = [parsed EXCEPT !.once = parse_time(parsed.in)]
    /\ pc' = "parsed"
    /\ UNCHANGED <<handler, tables, hist, stack, fileNo, count, input, ev>>
    /\ UNCHANGED <<args, conn, calls, catalog, workers>>

\* parse_time of the string parse_time returned.
ParseAgain ==
    /\ pc = "parsed"
    /\ parsed.once.ok
    /\ parsed' = [parsed EXCEPT !.twice = parse_time(parsed.once.val)]
    /\ pc' = "reparsed"
    /\ UNCHANGED <<handler, tables, hist, stack, fileNo, count, input, ev>>
    /\ UNCHANGED <<args, conn, calls, catalog, workers>>

NextParse == ParseTime \/ ParseAgain

SpecParse == InitParse /\ [][NextParse]_vars

(***************************************************************************)
(* parse_time on texts of one to MaxFields fields joined by ':', the       *)
(* fields numeric, padded, empty, not numeric or with a fraction.          *)
(***************************************************************************)
MaxFields == 4

AnyFields == {<<"1">>, <<"0", "5">>, <<"x">>, << >>, <<"3", ",", "5">>}

RECURSIVE JoinFields(_)
JoinFields(fs) ==
    IF Len(fs) = 1 THEN fs[1]
    ELSE fs[1] \o <<":">> \o JoinFields(Tail(fs))

AnyInputs ==
    {JoinFields(fs) : fs \in UNION {[1..n -> AnyFields] : n \in 1..MaxFields}}

InitParseAny ==
    /\ handler = DbHandlerInit
    /\ tables = EmptyTables
    /\ hist = HistoryInit
    /\ pc = "parse"
    /\ stack = << >>
    /\ fileNo = 0
    /\ count = 0
    /\ input = GivenInput(<< >>)
    /\ ev = NoEvent
    /\ args = DefaultArgs
    /\ conn = DbName
    /\ calls = << >>
    /\ catalog = Catalog(TRUE, {AdminDb, DbName}, AllTables(DefaultArgs))
    /\ workers = << >>
    /\ \E t \in AnyInputs : parsed = [NoParse EXCEPT !.in = t]

SpecParseAny == InitParseAny /\ [][NextParse]_vars


(***************************************************************************)
(* A batch of MaxBatch files, some of whose word and time nodes do not     *)
(* parse: SpecBatch.                                                       *)
(***************************************************************************)
MaxBatch == 2

\* A word id without '.', a word id whose first part is no number, a time
\* value without ':' and a time value whose seconds are no number.
Malformed ==
    {Element("w", [id |-> <<"1">>], "a"),
     Element("w", [id |-> <<"x", ".", "1">>], "a"),
     Time(<<"T", "1", "S">>, <<"1", "2">>),
     Time(<<"T", "1", "S">>, <<"0", ":", "0", ":", "x">>)}

BatchKids ==
    {Leaf(Word(1, 1, "a")), Leaf(Time(<<"T", "1", "S">>, Value1))}
        \cup {Leaf(n) : n \in Malformed}

BatchFiles ==
    {Tree(Document(d), kids) :
        d \in {1}, kids \in UNION {[1..n -> BatchKids] : n \in 1..2}}

InitBatch ==
    /\ handler = DbHandlerInit
    /\ tables = EmptyTables
    /\ hist = HistoryInit
    /\ pc = "main"
    /\ stack = << >>
    /\ fileNo = 0
    /\ count = 0
    /\ input \in {GivenInput(files) : files \in [1..MaxBatch -> BatchFiles]}
    /\ ev = NoEvent
    /\ Prepared

SpecBatch == InitBatch /\ [][Next]_vars

(***************************************************************************)
(* Two processes, each with its own handler and connection, importing one  *)
(* file each into the same database; their statements interleave:          *)
(* SpecWorkers.                                                            *)
(***************************************************************************)
MaxWorkerKids == 3

\* The calls pre_order_traversal(node, parent_path) makes for a tree, in
\* order: the node, then its children from left to right.
RECURSIVE PreOrder(_, _)
RECURSIVE PreOrderAll(_, _)
PreOrder(t, parent_path) ==
    <<[node |-> t.node, path |-> parent_path]>>
        \o PreOrderAll(t.kids, child_path(parent_path, t.node))

PreOrderAll(kids, path) ==
    IF kids = << >> THEN << >>
    ELSE PreOrder(Head(kids), path) \o PreOrderAll(Tail(kids), path)

Worker(file) ==
    [self |-> DbHandlerInit, g |-> HistoryInit, todo |-> PreOrder(file, << >>),
     n |-> 0, raised |-> "none"]

WorkerKids ==
    {Leaf(Word(1, 1, "a")), Leaf(Time(<<"T", "1", "S">>, Value1)),
     Leaf(Time(<<"T", "1", "E">>, Value2))}

WorkerFiles(d) ==
    {Tree(Document(d), kids) :
        kids \in UNION {[1..n -> WorkerKids] : n \in 1..MaxWorkerKids}}

InitWorkers ==
    /\ handler = DbHandlerInit
    /\ tables = EmptyTables
    /\ hist = HistoryInit
    /\ pc = "workers"
    /\ stack = << >>
    /\ fileNo = 0
    /\ count = 0
    /\ input \in {GivenInput(<<f1, f2>>) :
                     f1 \in WorkerFiles(1), f2 \in WorkerFiles(2)}
    /\ ev = NoEvent
    /\ args = DefaultArgs
    /\ conn = DbName
    /\ calls = << >>
    /\ catalog = Catalog(TRUE, {AdminDb, DbName}, AllTables(DefaultArgs))
    /\ workers = [i \in 1..2 |-> Worker(input.files[i])]
    /\ parsed = NoParse

\* Worker i's call of write_node left r: an exception ends the worker.
Visited(i, r) ==
    /\ tables' = r.db
    /\ workers' = [workers EXCEPT ![i] =
           [self |-> r.self, g |-> r.g,
            todo |-> IF r.raised # "none" THEN << >> ELSE Tail(@.todo),
            n |-> @.n + 1, raised |-> r.raised]]
    /\ ev' = Event(<<i, workers[i].n + 1>>, workers[i].todo[1].node, << >>, r)

\* The next call of pre_order_traversal in one of the workers.
WorkerVisit ==
    /\ pc = "workers"
    /\ \E i \in DOMAIN workers :
           /\ workers[i].todo # << >>
           /\ Visited(i, write_node(workers[i].self, tables, workers[i].g,
                          workers[i].todo[1].node, workers[i].todo[1].path,
                          <<i, workers[i].n + 1>>))
    /\ UNCHANGED <<handler, hist, pc, stack, fileNo, count, input>>
    /\ UNCHANGED <<args, conn, calls, catalog, parsed>>

NextWorkers == WorkerVisit

SpecWorkers == InitWorkers /\ [][NextWorkers]_vars

(***************************************************************************)
(* Two workers executing a guarded INSERT for the same natural key, the    *)
(* SELECT of each statement reading the table as it was when the           *)
(* statement started: SpecRace.                                            *)
(***************************************************************************)
\* The SELECT ... LEFT JOIN ... WHERE DocumentId IS NULL of a guarded
\* insert: whether it yields the row.
guard_select(db, wrote, row) == ~KeyPresent(db, wrote, {row})

\* key_insert on a table without its primary key.
key_insert_unchecked(db, wrote, row) ==
    Outcome([db EXCEPT ![wrote] = @ \cup {row}], "none")

\* The INSERT of the row the SELECT yielded: the primary key added by
\* ensure_table_* rejects a key that is present by now.
key_insert(db, wrote, row) ==
    IF KeyPresent(db, wrote, {row}) THEN Outcome(db, "UniqueViolation")
    ELSE Outcome([db EXCEPT ![wrote] = @ \cup {row}], "none")

\* Pairs of rows of one table with the same natural key.
RaceRows ==
    {[wrote |-> "words", rows |-> <<WordsRow(1, 1, 1, a), WordsRow(1, 1, 1, b)>>] :
        a \in InsertTexts, b \in InsertTexts}
    \cup {[wrote |-> "meta", rows |-> <<MetaRow(1, "title", a), MetaRow(1, "title", b)>>] :
        a \in InsertValues, b \in InsertValues}
    \cup {[wrote |-> "time", rows |->
              <<TimeRow(1, 1, 1, 1, parse_time(Value1).val, 1, 1, a),
                TimeRow(1, 1, 1, 1, parse_time(Value1).val, 1, 1, b)>>] :
        a \in InsertTimes, b \in InsertTimes}

InitRace ==
    /\ handler = DbHandlerInit
    /\ hist = HistoryInit
    /\ pc = "race"
    /\ stack = << >>
    /\ fileNo = 0
    /\ count = 0
    /\ input = GivenInput(<< >>)
    /\ ev = NoEvent
    /\ args = DefaultArgs
    /\ conn = DbName
    /\ calls = << >>
    /\ catalog = Catalog(TRUE, {AdminDb, DbName}, AllTables(DefaultArgs))
    /\ \E p \in RaceRows, present \in BOOLEAN :
           /\ workers = [i \in 1..2 |->
                  [wrote |-> p.wrote, row |-> p.rows[i], step |-> "select",
                   selected |-> FALSE, raised |-> "none", tries |-> 0]]
           /\ tables = IF present
                       THEN [EmptyTables EXCEPT ![p.wrote] = {p.rows[1]}]
                       ELSE EmptyTables
    /\ parsed = NoParse

\* The statement of worker i starts: its SELECT reads the table.  tries
\* counts the times the worker's insert_table_* call executes its statement.
RaceSelect ==
    /\ pc = "race"
    /\ \E i \in DOMAIN workers :
           /\ workers[i].step = "select"
           /\ workers' = [workers EXCEPT
                  ![i].selected = guard_select(tables, workers[i].wrote,
                                               workers[i].row),
                  ![i].step = "insert",
                  ![i].tries = @ + 1]
    /\ UNCHANGED <<handler, tables, hist, pc, stack, fileNo, count, input, ev>>
    /\ UNCHANGED <<args, conn, calls, catalog, parsed>>

\* The statement of worker i ends: what its SELECT yielded is inserted, and
\* cur.execute raises what the server reports.
Raced(i, o) ==
    /\ tables' = o.db
    /\ workers' = [workers EXCEPT ![i].step = "done", ![i].raised = o.raised]

RaceInsert ==
    /\ pc = "race"
    /\ \E i \in DOMAIN workers :
           /\ workers[i].step = "insert"
           /\ IF workers[i].selected
              THEN Raced(i, key_insert(tables, workers[i].wrote,
                                       workers[i].row))
              ELSE Raced(i, Outcome(tables, "none"))
    /\ UNCHANGED <<handler, hist, pc, stack, fileNo, count, input, ev>>
    /\ UNCHANGED <<args, conn, calls, catalog, parsed>>

NextRace == RaceSelect \/ RaceInsert

SpecRace == InitRace /\ [][NextRace]_vars

(***************************************************************************)
(* One document whose children are words with and without text, a sentence *)
(* holding a word, and open and close time nodes of two time ids, in every *)
(* order: SpecVisit.                                                       *)
(***************************************************************************)
MaxVisitKids == 4

VisitKids ==
    {Leaf(Word(1, 1, "a")), Leaf(Word(2, 3, "b")),
     Leaf(Element("w", [id |-> WordId(1, 2)], None)),
     Tree(Sentence(5), <<Leaf(Word(2, 3, "b"))>>),
     Leaf(Time(<<"T", "1", "S">>, Value1)),
     Leaf(Time(<<"T", "1", "E">>, Value2)),
     Leaf(Time(<<"T", "2", "E">>, Value2))}

VisitFiles ==
    {Tree(Document(1), kids) :
        kids \in UNION {[1..n -> VisitKids] : n \in 1..MaxVisitKids}}

InitVisit ==
    /\ handler = DbHandlerInit
    /\ tables = EmptyTables
    /\ hist = HistoryInit
    /\ pc = "main"
    /\ stack = << >>
    /\ fileNo = 0
    /\ count = 0
    /\ input \in {GivenInput(<<f>>) : f \in VisitFiles}
    /\ ev = NoEvent
    /\ Prepared

SpecVisit == InitVisit /\ [][Next]_vars

(***************************************************************************)
(* One file whose <document> holds up to MaxTraverseKids subtrees, down to *)
(* three levels below the root; main runs to its end, as a sequential      *)
(* program does.                                                           *)
(***************************************************************************)
MaxTraverseKids == 3

TraverseKids ==
    {Leaf(Word(1, 1, "a")),
     Leaf(Element("w", [id |-> WordId(1, 2)], None)),
     Tree(Sentence(2), <<Leaf(Word(2, 1, "b")), Leaf(Word(2, 2, "a"))>>),
     Tree(Sentence(5),
          <<Tree(Word(2, 3, "b"), <<Leaf(Word(3, 1, "a"))>>),
            Leaf(Word(3, 2, "b"))>>),
     Leaf(Time(<<"T", "1", "S">>, Value1))}

TraverseFiles ==
    {Tree(Document(1), kids) :
        kids \in UNION {[1..n -> TraverseKids] : n \in 1..MaxTraverseKids}}

InitTraverse ==
    /\ handler = DbHandlerInit
    /\ tables = EmptyTables
    /\ hist = HistoryInit
    /\ pc = "main"
    /\ stack = << >>
    /\ fileNo = 0
    /\ count = 0
    /\ input \in {GivenInput(<<f>>) : f \in TraverseFiles}
    /\ ev = NoEvent
    /\ Prepared

\* main has ended: an exception left it, or next_file has no file left.  No
\* step of Next is possible then, and one is in every other state.
Finished == pc = "crashed" \/ (pc = "main" /\ fileNo >= Len(input.files))

\* Weak fairness of Next, WF_vars(Next), with ENABLED <<Next>>_vars written
\* as ~Finished: the interpreter runs the one thread until main ends.
SpecTraverse ==
    InitTraverse /\ [][Next]_vars /\ (([]<>Finished) \/ ([]<><<Next>>_vars))

(***************************************************************************)
(* One document with up to MaxAbortKids children, among them word and time *)
(* nodes whose id or value does not parse: SpecAbort.                      *)
(***************************************************************************)
MaxAbortKids == 4

\* A time-close node whose value has no ':'.
MalformedClose == Time(<<"T", "1", "E">>, <<"1", "2">>)

AbortKids ==
    {Leaf(Word(1, 1, "a")), Leaf(Time(<<"T", "1", "S">>, Value1)),
     Leaf(Time(<<"T", "1", "E">>, Value2)), Leaf(MalformedClose)}
        \cup {Leaf(n) : n \in Malformed}

AbortFiles ==
    {Tree(Document(1), kids) :
        kids \in UNION {[1..n -> AbortKids] : n \in 1..MaxAbortKids}}

InitAbort ==
    /\ handler = DbHandlerInit
    /\ tables = EmptyTables
    /\ hist = HistoryInit
    /\ pc = "main"
    /\ stack = << >>
    /\ fileNo = 0
    /\ count = 0
    /\ input \in {GivenInput(<<f>>) : f \in AbortFiles}
    /\ ev = NoEvent
    /\ Prepared

SpecAbort == InitAbort /\ [][Next]_vars

(***************************************************************************)
(* Properties.                                                             *)
(***************************************************************************)
\* Each table holds at most one row per natural key.
KeysUnique ==
    /\ \A r1, r2 \in tables.words : WordsKey(r1) = WordsKey(r2) => r1 = r2
    /\ \A r1, r2 \in tables.meta : MetaKey(r1) = MetaKey(r2) => r1 = r2
    /\ \A r1, r2 \in tables.time : TimeKey(r1) = TimeKey(r2) => r1 = r2

\* C1: after any sequence of calls of insert_table_words, insert_table_meta
\* and insert_table_time, issued one at a time, each table holds at most one
\* row per natural key, and a call whose natural key was already present
\* added no row and raised no error.
C1_GuardedInsert ==
    /\ KeysUnique
    /\ ev.dup => (~ev.added /\ ev.raised = "none")

\* C1, its case: an insert_table_words call whose key was present with
\* another word; the row it carried is not in the table.
C1_Witness ==
    /\ pc = "insert"
    /\ ev.wrote = "words"
    /\ ev.dup
    /\ ev.rows \cap tables.words = {}

\* C2: importing the same file again through the same handler leaves the row
\* count of every table as it was after the first import: no call of a later
\* import adds a row.
C2_ReimportAddsNoRow == ev.at[1] >= 2 => ~ev.added

\* C3: a TimeSpan row is written only at a time-close node preceded, within
\* the same file's traversal, by a time-open node with no other time-close
\* node between the two.
C3_CloseFollowsOpen == (ev.wrote = "time" /\ ev.added) => ev.pending

\* C4: the time_id and start_time of a time-open node that no time-close
\* node followed before the end of its file reach no TimeSpan row, rows
\* written while traversing later files included.
C4_UnclosedOpenDropped ==
    (ev.wrote = "time" /\ ev.added)
        => ~(ev.openFile # 0 /\ ev.openFile # ev.at[1] /\ ~ev.openClosed)

\* C5: at the start of every file's traversal the handler's traversal state
\* is the state after construction.
C5_ResetPerFile == pc = "root" => handler = DbHandlerInit

\* C6: every row written while visiting a node carries the id of the node's
\* nearest enclosing <document>, and no row is written for a node without
\* one.
C6_DocumentOfRow ==
    ev.added => (/\ ev.docAnc # {}
                 /\ \A row \in ev.rows : row.DocumentId \in ev.docAnc)

\* A Word row of document d exists at position (s, w).
WordAt(d, s, w) ==
    \E r \in tables.words :
        r.DocumentId = d /\ r.SentenceId = s /\ r.WordId = w

\* C7: when a TimeSpan row is written, Word rows of its document exist at
\* its start position and at its end position.
C7_WordsBeforeSpan ==
    (ev.wrote = "time" /\ ev.added)
        => \A row \in ev.rows :
               /\ WordAt(row.DocumentId, row.StartSentenceId, row.StartWordId)
               /\ WordAt(row.DocumentId, row.EndSentenceId, row.EndWordId)

\* The scenario of parameters p, traversed from the state after
\* construction, wrote only rows of ScenarioRows(p), raised nothing, and has
\* written exactly ScenarioRows(p) when the traversal has ended.
ScenarioHolds(p) ==
    /\ pc # "crashed"
    /\ tables.words \subseteq ScenarioRows(p).words
    /\ tables.time \subseteq ScenarioRows(p).time
    /\ tables.meta = {}
    /\ FirstFileEnded => tables = ScenarioRows(p)

C9_MetaWritten ==
    (/\ ev.underMeta
     /\ ev.node.tag \notin {"document", "time", "s", "w"}
     /\ ev.node.text # None
     /\ ev.node.text # ""
     /\ ev.raised = "none")
        => (/\ ev.wrote = "meta"
            /\ \A d \in ev.docAnc :
                   MetaRow(d, ev.node.tag, ev.node.text) \in tables.meta)

\* C10: for every TimeSpan row written, the word visit that supplied its
\* start position is no later than the word visit that supplied its end
\* position.
C10_StartNotAfterEnd ==
    (ev.wrote = "time" /\ ev.added) => ev.src[1] <= ev.src[2]

\* C10, its case: a TimeSpan row written whose start and end positions came
\* from two different word visits.
C10_Witness ==
    /\ ev.wrote = "time"
    /\ ev.added
    /\ 0 < ev.src[1]
    /\ ev.src[1] < ev.src[2]

\* The calls of the process so far, by name: a statement by its kind.
Trace ==
    [i \in 1..Len(calls) |->
        IF calls[i].op = "execute" THEN calls[i].arg.kind ELSE calls[i].op]

Issued(kind) == \E i \in 1..Len(calls) : Trace[i] = kind

\* The except clause of prepare has run is_db_present.
AdminChecked == Issued("SELECT datname")

\* prepare has returned and main is in its loop.
PrepareReturned == pc \in {"main", "root", "walk"}

C12_CreateThenReconnect ==
    (AdminChecked /\ DbName \notin catalog.before.dbs)
        => /\ Len(Trace) >= 5
           /\ SubSeq(Trace, 1, 5) =
                  <<"connect", "admin_connect", "SELECT datname",
                    "CREATE DATABASE", "connect">>

\* C13: whenever prepare has returned normally, the handler's connection is
\* the one to the target database and the three tables exist.
C13_PreparedSchema ==
    PrepareReturned
        => /\ conn = DbName
           /\ AllTables(args) \subseteq catalog.tables

\* C13, its case: prepare has returned on a server that had none of the
\* tables.
C13_Witness ==
    /\ PrepareReturned
    /\ catalog.before.tables = {}
    /\ Issued("CREATE TABLE")

\* C14: when all three tables exist at startup, the schema bootstrap issues
\* no CREATE TABLE and no ALTER TABLE statement.
C14_BootstrapNoDdl ==
    AllTables(args) \subseteq catalog.before.tables
        => (~Issued("CREATE TABLE") /\ ~Issued("ALTER TABLE ADD PRIMARY KEY"))

RECURSIVE Pow10(_)
Pow10(k) == IF k = 0 THEN 1 ELSE 10 * Pow10(k - 1)

\* The number a decimal numeral (digits, at most one '.') denotes, as
\* <<n, k>> for n / 10^k.
Numeral(text) ==
    LET parts == py_split(text, ".")
        fr == IF Len(parts) = 2 THEN parts[2] ELSE << >>
    IN  <<DigitsVal(parts[1] \o fr), Len(fr)>>

SameNumber(a, b) == a[1] * Pow10(b[2]) = b[1] * Pow10(a[2])

\* The fields of a text "[D ]H:M:S": days (0 when there are none), hours,
\* minutes as integers, seconds as a numeral.
TimeFields(text) ==
    LET sp == py_split(text, " ")
        hms == py_split(sp[Len(sp)], ":")
    IN  [hasDays |-> Len(sp) = 2,
         days |-> IF Len(sp) = 2 THEN py_int(sp[1]).val ELSE 0,
         hours |-> py_int(hms[1]).val,
         minutes |-> py_int(hms[2]).val,
         seconds |-> Numeral(py_replace(hms[3], ",", "."))]

\* Two texts "[D ]H:M:S" denote the same duration.
SameDuration(a, b) ==
    /\ (TimeFields(a).days * 24 + TimeFields(a).hours) * 60
           + TimeFields(a).minutes
         = (TimeFields(b).days * 24 + TimeFields(b).hours) * 60
               + TimeFields(b).minutes
    /\ SameNumber(TimeFields(a).seconds, TimeFields(b).seconds)

\* C15: for an input H:MM:SS, parse_time writes a days component only when
\* H >= 24; the days are H div 24, the hours H mod 24, days*24 + hours is H,
\* and the minutes and seconds keep their numeric value.
C15_DaysCarry ==
    pc \in {"parsed", "reparsed"}
        => /\ parsed.once.ok
           /\ LET H == TimeFields(parsed.in).hours
                  out == TimeFields(parsed.once.val)
              IN  /\ Len(py_split(parsed.once.val, " ")) <= 2
                  /\ Len(py_split(parsed.once.val, ":")) = 3
                  /\ out.hasDays <=> H >= 24
                  /\ out.days = H \div 24
                  /\ out.hours = H % 24
                  /\ out.days * 24 + out.hours = H
                  /\ out.minutes = TimeFields(parsed.in).minutes
                  /\ SameNumber(out.seconds, TimeFields(parsed.in).seconds)

\* C15, its case: an input of two days or more, with a fraction and a
\* comma, has been parsed.
C15_Witness ==
    /\ pc = "parsed"
    /\ TimeFields(parsed.in).hours >= 48
    /\ TimeFields(parsed.in).minutes = 59
    /\ parsed.once.ok
    /\ \E i \in 1..Len(parsed.in) : parsed.in[i] = ","

\* C16: parse_time is idempotent: parse_time of what parse_time returned
\* succeeds and denotes the same duration.
C16_ParseIdempotent ==
    pc = "reparsed"
        => /\ parsed.twice.ok
           /\ SameDuration(parsed.twice.val, parsed.once.val)

\* The exceptions of a word or time node that does not parse.
ParseErrors == {"KeyError", "IndexError", "ValueError", "InvalidOperation"}

\* C17: a word or time node that fails to parse abandons only its own
\* file: main does not end by that exception while files remain.
C17_BatchContinues ==
    (pc = "crashed" /\ ev.raised \in ParseErrors)
        => fileNo = Len(input.files)

\* C18: for a database product other than 'postgresql', get_handler fails
\* with the unsupported-product error before any connection attempt, any
\* statement and the traversal of any file.
C18_UnsupportedProduct ==
    args.db_product # "postgresql"
        => /\ pc \in {"start", "crashed"}
           /\ pc = "crashed" => ev.raised = "UnsupportedDbError"
           /\ calls = << >>
           /\ conn = None
           /\ catalog.tables = catalog.before.tables
           /\ catalog.dbs = catalog.before.dbs
           /\ tables = EmptyTables
           /\ fileNo = 0
           /\ count = 0

\* C18, its case: get_handler has raised for the product 'mysql'.
C18_Witness ==
    /\ args.db_product = "mysql"
    /\ pc = "crashed"
    /\ ev.raised = "UnsupportedDbError"

\* The tables after a fresh handler has made the calls `todo` one after the
\* other, starting from the tables db.
RECURSIVE RunAlone(_, _, _, _)
RunAlone(self, g, db, todo) ==
    IF todo = << >> THEN db
    ELSE LET r == write_node(self, db, g, todo[1].node, todo[1].path, <<0, 0>>)
         IN  IF r.raised # "none" THEN r.db
             ELSE RunAlone(r.self, r.g, r.db, Tail(todo))

\* The tables after the traversal of file a and then that of file b, each
\* by its own handler.
OneAfterTheOther(a, b) ==
    RunAlone(DbHandlerInit, HistoryInit,
             RunAlone(DbHandlerInit, HistoryInit, EmptyTables,
                      PreOrder(a, << >>)),
             PreOrder(b, << >>))

WorkersDone == \A i \in DOMAIN workers : workers[i].todo = << >>

\* C19: two workers with their own handlers, traversing files of different
\* documents, leave under every interleaving of their visits the tables that
\* the two traversals leave when run one after the other.
C19_WorkersCommute ==
    (pc = "workers" /\ WorkersDone)
        => /\ tables = OneAfterTheOther(input.files[1], input.files[2])
           /\ tables = OneAfterTheOther(input.files[2], input.files[1])

\* C19, its case: both workers have finished, each has written a Word row
\* and a TimeSpan row, and the last visit was worker 1's while worker 2 had
\* written before.
C19_Witness ==
    /\ pc = "workers"
    /\ WorkersDone
    /\ ev.at[1] = 1
    /\ \A d \in {1, 2} :
           /\ \E r \in tables.words : r.DocumentId = d
           /\ \E r \in tables.time : r.DocumentId = d

\* Both statements of the race have ended.
RaceDone == \A i \in DOMAIN workers : workers[i].step = "done"

\* The rows of the raced table that carry the raced key.
RaceKeyRows ==
    {r \in tables[workers[1].wrote] :
        KeyPresent([EmptyTables EXCEPT ![workers[1].wrote] = {r}],
                   workers[1].wrote, {workers[1].row})}

\* C20: when two workers insert the same natural key and the check and the
\* insert of their statements interleave, the table never holds two rows of
\* the key, and the execution ends with one row and no error or with a
\* conflict error raised to a caller.
C20_RaceSurfaced ==
    pc = "race"
        => /\ KeysUnique
           /\ RaceDone =>
                  \/ /\ Cardinality(RaceKeyRows) = 1
                     /\ \A i \in DOMAIN workers : workers[i].raised = "none"
                  \/ \E i \in DOMAIN workers :
                         workers[i].raised = "UniqueViolation"

\* C20, its case: both statements found the key absent, one inserted its
\* row and the other was refused.
C20_Witness ==
    /\ pc = "race"
    /\ RaceDone
    /\ \A i \in DOMAIN workers : workers[i].selected
    /\ \E i \in DOMAIN workers : workers[i].raised = "UniqueViolation"
    /\ Cardinality(RaceKeyRows) = 1

\* C21: an insert whose statement the engine refused for a natural-key
\* collision under concurrent writers was retried once: the conflict reaches
\* the caller only after the statement has been executed twice.
C21_RetriedOnce ==
    pc = "race"
        => \A i \in DOMAIN workers :
               workers[i].raised = "UniqueViolation" => workers[i].tries = 2

\* C22: the import only adds: every row of words_<lang>, meta and time_<lang>
\* is still there, with the same values in all its columns, after every
\* later statement, and a statement that carries a natural key already
\* present leaves the tables as they are (the row written first stays).
C22_Additive ==
    [][/\ tables.words \subseteq tables'.words
       /\ tables.meta \subseteq tables'.meta
       /\ tables.time \subseteq tables'.time
       /\ ev'.dup => tables' = tables]_vars

\* C22, its case: an insert_table_words call carried the key of a stored row
\* with another word, while the other two tables hold rows; the stored row
\* is there and the carried one is not.
C22_Witness ==
    /\ pc = "insert"
    /\ ev.wrote = "words"
    /\ ev.dup
    /\ \E row \in ev.rows, r \in tables.words :
           WordsKey(r) = WordsKey(row) /\ r.Word # row.Word
    /\ tables.meta # {}
    /\ tables.time # {}

\* The step is a call of write_node: the node visited is ev'.node.
Visit == count' = count + 1

\* The id of a word node is "<s>.<w>" with integers s and w.
IsWordId(node) ==
    /\ node.tag = "w"
    /\ "id" \in DOMAIN node.attrib
    /\ Len(py_split(node.attrib.id, ".")) = 2
    /\ py_int(py_split(node.attrib.id, ".")[1]).ok
    /\ py_int(py_split(node.attrib.id, ".")[2]).ok

IdPart(node, k) == py_int(py_split(node.attrib.id, ".")[k]).val

\* What the visit of a word node with id "<s>.<w>" is to leave, for the
\* handler `before` and `after` the visit and the tables db after it.
WordVisited(before, after, db, s, w) ==
    /\ after.s_id = s
    /\ after.w_real_id = w
    /\ \E r \in db.words : WordsKey(r) = <<before.document_id, s, w>>
    /\ IF before.start_s_id < 0
       THEN after.start_s_id = s /\ after.start_w_id = w
       ELSE /\ after.start_s_id = before.start_s_id
            /\ after.start_w_id = before.start_w_id

\* C23: the visit of a word node with id "<s>.<w>" sets the current sentence
\* id to s and the current word id to w, leaves a Word row with key (current
\* document id, s, w) in words_<lang>, and makes (s, w) the start position
\* if none was recorded (start sentence id < 0), leaving it unchanged
\* otherwise.
C23_WordVisit ==
    [][(Visit /\ IsWordId(ev'.node))
          => WordVisited(handler, handler', tables', IdPart(ev'.node, 1),
                         IdPart(ev'.node, 2))]_vars

\* A time node whose id ends in 'S'.
IsTimeOpen(node) ==
    /\ node.tag = "time"
    /\ "id" \in DOMAIN node.attrib
    /\ node.attrib.id # << >>
    /\ node.attrib.id[Len(node.attrib.id)] = "S"

\* The handler's fields other than `fields` are the same before and after.
Frame(before, after, fields) ==
    \A f \in (DOMAIN before) \ fields : after[f] = before[f]

\* C24: the visit of a document node, an s node or a time-open node leaves
\* the three tables unchanged; of the handler's fields a document node
\* changes at most document_id, an s node at most s_id, and a time-open node
\* at most time_id and start_time.
C24_NoInsertVisits ==
    [][Visit =>
          /\ ev'.node.tag = "document"
                 => tables' = tables /\ Frame(handler, handler', {"document_id"})
          /\ ev'.node.tag = "s"
                 => tables' = tables /\ Frame(handler, handler', {"s_id"})
          /\ IsTimeOpen(ev'.node)
                 => /\ tables' = tables
                    /\ Frame(handler, handler', {"time_id", "start_time"})]_vars

\* C24, its case: a time-open node was visited after a word: it set time_id
\* and start_time, and the Word row and the start position are still there.
C24_Witness ==
    /\ IsTimeOpen(ev.node)
    /\ ev.raised = "none"
    /\ handler.time_id = 1
    /\ handler.start_time # << >>
    /\ handler.start_s_id >= 0
    /\ tables.words # {}

\* The time ids the properties range over.
MaxTimeId == 12

TimeIdOf(node) ==
    IF py_int(SubSeq(node.attrib.id, 2, Len(node.attrib.id) - 1)).ok
    THEN {py_int(SubSeq(node.attrib.id, 2, Len(node.attrib.id) - 1)).val}
    ELSE {}

\* C26: the TimeId of every TimeSpan row written is the number in the id of
\* the time-close node at which it was written.
C26_ClosePairsSameId ==
    (ev.wrote = "time" /\ ev.added)
        => \A row \in ev.rows : row.TimeId \in TimeIdOf(ev.node)

\* A time node whose id does not end in 'S'.
IsTimeClose(node) ==
    /\ node.tag = "time"
    /\ "id" \in DOMAIN node.attrib
    /\ node.attrib.id # << >>
    /\ node.attrib.id[Len(node.attrib.id)] # "S"

\* C27: a time-close node clears the recorded start position, and the start
\* position of every TimeSpan row written was supplied by the first word
\* visited after the previous time-close node (after the start of the run
\* when there was none).
C27_StartIsFirstWord ==
    /\ (IsTimeClose(ev.node) /\ ev.raised = "none") => handler.start_s_id < 0
    /\ (ev.wrote = "time" /\ ev.added)
           => (ev.first # 0 /\ ev.src[1] = ev.first)

\* C28: the (EndSentenceId, EndWordId) of every TimeSpan row written is the
\* (sentence id, word id) of the word node visited last before the
\* time-close node.
C28_EndIsLastWord ==
    (ev.wrote = "time" /\ ev.added)
        => \A row \in ev.rows :
               <<row.EndSentenceId, row.EndWordId>> = hist.lastWord

\* The kinds of the statements issued so far that create or alter the table
\* the server stores under the name T, in order.
Ddl(T) ==
    LET changes(c) ==
            /\ c.op = "execute"
            /\ c.arg.kind \in {"CREATE TABLE", "ALTER TABLE ADD PRIMARY KEY"}
            /\ pg_fold(c.arg.name) = T
        issued == SelectSeq(calls, changes)
    IN  [i \in 1..Len(issued) |-> issued[i].arg.kind]

\* C29: for a table absent when the bootstrap starts, the statements issued
\* for it besides the existence check are CREATE TABLE and then ALTER TABLE
\* ADD PRIMARY KEY, both once prepare has returned; for a table present,
\* none is issued.
C29_CreateThenKey ==
    \A T \in AllTables(args) :
        IF T \in catalog.before.tables THEN Ddl(T) = << >>
        ELSE /\ Ddl(T) \in {<< >>, <<"CREATE TABLE">>,
                            <<"CREATE TABLE", "ALTER TABLE ADD PRIMARY KEY">>}
             /\ PrepareReturned
                    => Ddl(T) = <<"CREATE TABLE", "ALTER TABLE ADD PRIMARY KEY">>

\* The positions of the CREATE DATABASE statements among the calls.
CreatedDb == {i \in 1..Len(calls) : Trace[i] = "CREATE DATABASE"}

WholeRows(db) ==
    /\ \A r \in db.words : r.Word # None
    /\ \A r \in db.meta : r.Value # None
    /\ \A r \in db.time : IsInterval(r.StartTime) /\ IsInterval(r.EndTime)

\* C31: when the visit of a node ends the traversal by a parse error, the
\* tables are afterwards what they were before that visit, so every row
\* written for an earlier node is still there, and every row in them has
\* all its columns.
C31_AbortKeepsRows ==
    [][(Visit /\ ev'.raised \in ParseErrors)
          => (tables' = tables /\ WholeRows(tables'))]_vars

\* C31, its case: a parse error has ended the traversal of a file after a
\* Word row and a TimeSpan row were written for earlier nodes of it.
C31_Witness ==
    /\ pc = "crashed"
    /\ ev.raised \in ParseErrors
    /\ fileNo = 1
    /\ tables.words # {}
    /\ tables.time # {}

\* C32: the visit of a word node without text raises nothing and the
\* traversal goes on to the nodes after it.
C32_TextlessWordGoesOn ==
    (IsWordId(ev.node) /\ ev.node.text = None)
        => (ev.raised = "none" /\ pc # "crashed")

\* A field of digits, and a seconds field of digits with at most one ',' or
\* '.' among them.
NumericField(f) == AllDigits(f)

SecondsField(f) ==
    /\ \E i \in 1..Len(f) : f[i] \in DigitChars
    /\ \A i \in 1..Len(f) : f[i] \in DigitChars \cup {",", "."}
    /\ Cardinality({i \in 1..Len(f) : f[i] \in {",", "."}}) <= 1

\* C33: parse_time returns a value only for a text of exactly three
\* ':'-separated fields, numeric hours, minutes and seconds; for any other
\* text it raises.
C33_ThreeFieldsOrError ==
    (pc # "parse" /\ parsed.once.ok)
        => /\ Len(py_split(parsed.in, ":")) = 3
           /\ NumericField(py_split(parsed.in, ":")[1])
           /\ NumericField(py_split(parsed.in, ":")[2])
           /\ SecondsField(py_split(parsed.in, ":")[3])

\* A number written without leading zeros, and the digits after the '.' or
\* ',' of a seconds field.
Unpadded(f) == Len(f) = 1 \/ (f # << >> /\ f[1] # "0")

WholePart(f) == py_split(py_replace(f, ",", "."), ".")[1]

Fraction(f) == Tail(py_split(py_replace(f, ",", "."), "."))

\* An input H:MM:SS[,.]fff: hours without padding, two digits of minutes and
\* of whole seconds.
InForm(t) ==
    /\ Len(py_split(t, ":")) = 3
    /\ Unpadded(py_split(t, ":")[1])
    /\ Len(py_split(t, ":")[2]) = 2
    /\ Len(WholePart(py_split(t, ":")[3])) = 2

\* C34 as stated: for an input H:MM:SS[,.]fff with H < 24, parse_time
\* returns the text of the input, its ',' written '.'.
C34_SameText ==
    (pc # "parse" /\ InForm(parsed.in) /\ TimeFields(parsed.in).hours < 24)
        => (parsed.once.ok /\ parsed.once.val = py_replace(parsed.in, ",", "."))

\* C34: for an input H:MM:SS[,.]fff with H < 24, parse_time returns the same
\* duration with no days part; the hours, minutes and whole seconds are
\* written without leading zeros and the fraction keeps its digits after a
\* '.': "3:05:09.2" gives "3:5:9.2" and "0:00:01,000" gives "0:0:1.000".
C34_SameTimeUnpadded ==
    (pc # "parse" /\ InForm(parsed.in) /\ TimeFields(parsed.in).hours < 24)
        => /\ parsed.once.ok
           /\ Len(py_split(parsed.once.val, " ")) = 1
           /\ Len(py_split(parsed.once.val, ":")) = 3
           /\ SameDuration(parsed.once.val, parsed.in)
           /\ Unpadded(py_split(parsed.once.val, ":")[1])
           /\ Unpadded(py_split(parsed.once.val, ":")[2])
           /\ Unpadded(WholePart(py_split(parsed.once.val, ":")[3]))
           /\ Fraction(py_split(parsed.once.val, ":")[3])
                  = Fraction(py_split(parsed.in, ":")[3])
           /\ \A i \in 1..Len(parsed.once.val) : parsed.once.val[i] # ","
           /\ parsed.in = <<"3", ":", "0", "5", ":", "0", "9", ".", "2">>
                  => parsed.once.val = <<"3", ":", "5", ":", "9", ".", "2">>
           /\ parsed.in = <<"0", ":", "0", "0", ":", "0", "1", ",", "0", "0", "0">>
                  => parsed.once.val = <<"0", ":", "0", ":", "1", ".", "0", "0", "0">>

\* C34, its case: "3:05:09.2" has been parsed to "3:5:9.2".
C34_Witness ==
    /\ pc = "parsed"
    /\ parsed.in = <<"3", ":", "0", "5", ":", "0", "9", ".", "2">>
    /\ parsed.once.val = <<"3", ":", "5", ":", "9", ".", "2">>

\* The nodes of a tree by their addresses: the root is << >>, the i-th child
\* of the node at a is a \o <<i>>.
RECURSIVE Addrs(_)
Addrs(t) ==
    {<< >>} \cup UNION {{<<i>> \o a : a \in Addrs(t.kids[i])} :
                          i \in 1..Len(t.kids)}

RECURSIVE NodeAt(_, _)
NodeAt(t, a) ==
    IF a = << >> THEN t.node ELSE NodeAt(t.kids[Head(a)], Tail(a))

\* Document order: a node comes before its descendants, and the subtree of
\* a child before the subtrees of the children to its right.
Before(a, b) ==
    \/ Len(a) < Len(b) /\ SubSeq(b, 1, Len(a)) = a
    \/ \E i \in 1..Len(a) :
           /\ i <= Len(b)
           /\ SubSeq(a, 1, i - 1) = SubSeq(b, 1, i - 1)
           /\ a[i] < b[i]

Rank(t, a) == 1 + Cardinality({b \in Addrs(t) : Before(b, a)})

\* The nodes from the root down to the parent of the node at a.
Ancestors(t, a) == [i \in 1..Len(a) |-> NodeAt(t, SubSeq(a, 1, i - 1))]

\* The k-th call of write_node in the file is for the k-th node of the file
\* in document order, made while the calls of that node's ancestors, and of
\* no other node, are active.
VisitInOrder(t) ==
    count >= 1 =>
        \E a \in Addrs(t) :
            /\ Rank(t, a) = count
            /\ ev.node = NodeAt(t, a)
            /\ ev.raised = "none" /\ pc = "walk" /\ Len(stack) = Len(a) + 1
                   => [i \in 1..Len(a) |-> stack[i].node] = Ancestors(t, a)
            /\ ev.raised = "none" /\ pc = "walk" /\ Len(stack) = Len(a) + 1
                   => stack[Len(stack)].node = ev.node

\* C35: pre_order_traversal of a finite tree comes to an end; write_node is
\* called for the nodes in document order, each node before its descendants
\* and the children from left to right, and when the root's call returns
\* every node has been visited exactly once.
C35_PreOrderOnce ==
    /\ [](fileNo = 1 => VisitInOrder(input.files[1]))
    /\ []((fileNo = 1 /\ pc = "main")
            => count = Cardinality(Addrs(input.files[1])))
    /\ <>(pc = "crashed" \/ (pc = "main" /\ fileNo = 1))

\* C35, its case: the traversal of a file of seven nodes or more on three
\* levels below the root has returned.
C35_Witness ==
    /\ pc = "main"
    /\ fileNo = 1
    /\ count >= 7
    /\ \E a \in Addrs(input.files[1]) : Len(a) = 3

\* Both parts of the id of a word node are there and are integers.
BothPartsParse(node) ==
    /\ "id" \in DOMAIN node.attrib
    /\ Len(py_split(node.attrib.id, ".")) >= 2
    /\ py_int(py_split(node.attrib.id, ".")[1]).ok
    /\ py_int(py_split(node.attrib.id, ".")[2]).ok

\* The value of a time node is there and parse_time accepts it.
ValueParses(node) ==
    "value" \in DOMAIN node.attrib /\ parse_time(node.attrib.value).ok

\* C36: a word or time node whose id or value does not parse executes no
\* INSERT and adds no row; an INSERT into the words table is executed only
\* for a word whose two id parts parsed, and one into the time table only
\* for a close node whose value parsed.
C36_NoRowUnparsed ==
    /\ (ev.node.tag \in {"w", "time"} /\ ev.raised \in ParseErrors)
           => (ev.wrote = "none" /\ ev.rows = {} /\ ~ev.added)
    /\ (ev.node.tag = "w" /\ ~BothPartsParse(ev.node))
           => (ev.raised \in ParseErrors /\ ev.wrote = "none")
    /\ (ev.node.tag = "time" /\ ~ValueParses(ev.node))
           => (ev.raised \in ParseErrors /\ ev.wrote = "none")
    /\ ev.wrote = "words" => (ev.node.tag = "w" /\ BothPartsParse(ev.node))
    /\ ev.wrote = "time"
           => (ev.node.tag = "time" /\ ~IsTimeOpen(ev.node)
               /\ ValueParses(ev.node))

\* C36, its case: after an open node and a word, the visit of a close node
\* whose value has one field raised, and the time table has no row.
C36_Witness ==
    /\ pc = "crashed"
    /\ ev.node = MalformedClose
    /\ ev.raised = "IndexError"
    /\ ev.pending
    /\ tables.words # {}
    /\ tables.time = {}

\* C37: every connect() to the target database passes the configured user
\* as the keyword `user` when db_user is set, and the database name and the
\* password alone when only a password is set.
C37_UserPassed ==
    \A i \in 1..Len(calls) :
        calls[i].op = "connect"
            => /\ Truthy(args.db_user)
                     => /\ "user" \in DOMAIN calls[i].arg
                        /\ calls[i].arg["user"] = args.db_user
               /\ (~Truthy(args.db_user) /\ Truthy(args.db_password))
                     => /\ DOMAIN calls[i].arg = {"dbname", "password"}
                        /\ calls[i].arg["password"] = args.db_password

====
